---------------------------- MODULE Spec2Model ----------------------------
(***************************************************************************)
(* A model of snowflake.py: the polar pixel model (PolarPoint,             *)
(* SnowflakeSegment, Snowflake) and the frame loop of main().              *)
(*                                                                         *)
(* Numbers.  Python floats are modelled in fixed point.                    *)
(*   - An angle is an integer count of 1/240 of a full turn, so that       *)
(*     2*pi/size and pi/size are whole for every size of VALID_SIZES.      *)
(*   - A radius is an integer number of screen pixels.  The inputs are     *)
(*     chosen so that the two rescalings by 150/200 and 200/150 are exact  *)
(*     (as they are, to the last bit or so, in floating point).            *)
(*   - math.sin and math.cos are a table of 1/10000ths.                    *)
(*   - math.hypot and math.atan2 are library results the environment       *)
(*     supplies in these units (a radius, an angle in (-pi, pi]).          *)
(***************************************************************************)
EXTENDS Integers, Sequences, FiniteSets

(***************************************************************************)
(* Bounds of the model.                                                    *)
(***************************************************************************)
MaxFrames == 3
MaxEvents == 2
MaxPixels == 2
MaxCalls == 3

(***************************************************************************)
(* Program constants (snowflake.py lines 12-52).                           *)
(***************************************************************************)
SCREEN_HEIGHT == 650
RADIANS_IN_CIRCLE == 240
TRIG_SCALE == 10000
CARTESIAN_ORIGIN == <<0, SCREEN_HEIGHT>>
CARTESIAN_SIGNS == <<1, -1>>
BACKGROUND_COLOR == "BACKGROUND_COLOR"
SNOWFLAKE_COLOR == "SNOWFLAKE_COLOR"
SNOWFLAKE_SEGMENT_RADIUS == 200
SNOWFLAKE_SEGMENT_POSITION == <<210, 325>>
VALID_SIZES == <<2, 4, 6, 8, 10, 12>>
SNOWFLAKE_RADIUS == 150
SNOWFLAKE_POSITION == <<600, 325>>
ROTATION_SPEED == -1
DEFAULT_SIZE == 6
DEFAULT_MIRROR == TRUE

(***************************************************************************)
(* Library functions.                                                      *)
(***************************************************************************)
SinTable ==
    << 0, 262, 523, 785, 1045, 1305, 1564, 1822, 2079, 2334, 2588, 2840,
       3090, 3338, 3584, 3827, 4067, 4305, 4540, 4772, 5000, 5225, 5446,
       5664, 5878, 6088, 6293, 6494, 6691, 6884, 7071, 7254, 7431, 7604,
       7771, 7934, 8090, 8241, 8387, 8526, 8660, 8788, 8910, 9026, 9135,
       9239, 9336, 9426, 9511, 9588, 9659, 9724, 9781, 9833, 9877, 9914,
       9945, 9969, 9986, 9997, 10000 >>

\* math.sin, of any angle, in 1/TRIG_SCALE
sin(theta) ==
    LET u == theta % RADIANS_IN_CIRCLE
        half == RADIANS_IN_CIRCLE \div 2
        quarter == RADIANS_IN_CIRCLE \div 4
        v == u % half
        w == IF v <= quarter THEN v ELSE half - v
    IN  IF u < half THEN SinTable[w + 1] ELSE -SinTable[w + 1]

\* math.cos
cos(theta) == sin(theta + RADIANS_IN_CIRCLE \div 4)

\* int() of a value held in 1/TRIG_SCALE: truncation towards zero
int(v) == IF v >= 0 THEN v \div TRIG_SCALE ELSE -((-v) \div TRIG_SCALE)

\* index of a value in a tuple (tuple.index, 0-based)
index(tuple, v) == (CHOOSE k \in 1..Len(tuple) : tuple[k] = v) - 1

(***************************************************************************)
(* to_rectangular (lines 55-80).                                           *)
(***************************************************************************)
to_rectangular(theta, radius, polar_origin) ==
    LET relative_x == radius * cos(theta) + polar_origin[1] * TRIG_SCALE
        relative_y == radius * sin(theta) + polar_origin[2] * TRIG_SCALE
        screen_x == CARTESIAN_SIGNS[1] * relative_x
                        + CARTESIAN_ORIGIN[1] * TRIG_SCALE
        screen_y == CARTESIAN_SIGNS[2] * relative_y
                        + CARTESIAN_ORIGIN[2] * TRIG_SCALE
    IN  <<int(screen_x), int(screen_y)>>

(***************************************************************************)
(* PolarPoint (lines 83-142).                                              *)
(***************************************************************************)
PolarPoint(radius, theta) == [radius |-> radius, theta |-> theta]

\* from_rectangular: hypot and atan2_radians are math.hypot(relative_x,
\* relative_y) and math.atan2(relative_y, relative_x)
from_rectangular(hypot, atan2_radians) ==
    PolarPoint(hypot, atan2_radians % RADIANS_IN_CIRCLE)

(***************************************************************************)
(* SnowflakeSegment (lines 144-194).                                       *)
(***************************************************************************)
SnowflakeSegment(radius, size, origin, centered_angle) ==
    [radius |-> radius, size |-> size, origin |-> origin,
     centered_angle |-> centered_angle]

\* a faulty contains_point: the whole arc is taken for the half arc
contains_point_FullArc(self, point) ==
    LET angle_arc == RADIANS_IN_CIRCLE \div self.size
        angle_begin == RADIANS_IN_CIRCLE - angle_arc
        angle_end == angle_arc
    IN  IF point.theta < angle_begin /\ point.theta > angle_end
        THEN FALSE
        ELSE IF point.radius > self.radius \/ point.radius < 0
        THEN FALSE
        ELSE TRUE

contains_point(self, point) ==
    LET angle_arc == RADIANS_IN_CIRCLE \div self.size
        angle_begin == RADIANS_IN_CIRCLE - (angle_arc \div 2)
        angle_end == angle_arc \div 2
    IN  IF point.theta < angle_begin /\ point.theta > angle_end
        THEN FALSE
        ELSE IF point.radius > self.radius \/ point.radius < 0
        THEN FALSE
        ELSE TRUE

(***************************************************************************)
(* Snowflake (lines 288-471).  pixels is a dict keyed by PolarPoint        *)
(* objects.  PolarPoint defines __hash__ and no __eq__, so two keys are    *)
(* the same key only when they are the same object: the dict is modelled   *)
(* as the sequence of its entries in insertion order, one entry per key    *)
(* object, the entry's position standing for the object's identity.        *)
(***************************************************************************)
NewSnowflake(radius, size, origin, mirror) ==
    [radius |-> radius, size |-> size, origin |-> origin, mirror |-> mirror,
     pixels |-> <<>>, current_angle |-> 0]

Entry(point, value) ==
    [theta |-> point.theta, radius |-> point.radius, value |-> value]

\* set_pixel with a key object that is not yet in the dict, as every key
\* object main() passes is (from_rectangular builds a new one, line 123)
set_pixel(self, point, value) ==
    [self EXCEPT !.pixels = Append(@, Entry(point, value))]

clear_pixels(self) == [self EXCEPT !.pixels = <<>>]

RECURSIVE Without(_, _, _)
\* the entries of seq from position k on, those at the positions in gone
\* left out (the pops of lines 354-355)
Without(seq, gone, k) ==
    IF k > Len(seq) THEN <<>>
    ELSE IF k \in gone THEN Without(seq, gone, k + 1)
    ELSE <<seq[k]>> \o Without(seq, gone, k + 1)

\* the key objects clear_pixels_outside collects (by position)
to_delete(self, segment) ==
    { k \in 1..Len(self.pixels) :
        LET pixel == self.pixels[k]
            real_radius == (pixel.radius * segment.radius) \div self.radius
            point == PolarPoint(real_radius, pixel.theta)
        IN  ~contains_point(segment, point) }

\* a faulty clear_pixels_outside: it stops at the first pixel it removes
clear_pixels_outside_FirstOnly(self, segment) ==
    LET gone == to_delete(self, segment)
        first == IF gone = {} THEN {}
                 ELSE {CHOOSE k \in gone : \A j \in gone : k <= j}
    IN  [self EXCEPT !.pixels = Without(@, first, 1)]

clear_pixels_outside(self, segment) ==
    [self EXCEPT !.pixels = Without(@, to_delete(self, segment), 1)]

\* a faulty rotate: the remainder takes the sign of the sum (C's fmod)
Snowflake_rotate_Truncating(self, angle) ==
    [self EXCEPT !.current_angle =
        IF @ + angle >= 0 THEN (@ + angle) % RADIANS_IN_CIRCLE
                          ELSE -((-(@ + angle)) % RADIANS_IN_CIRCLE)]

Snowflake_rotate(self, angle) ==
    [self EXCEPT !.current_angle = (@ + angle) % RADIANS_IN_CIRCLE]

\* a faulty draw call: the rotation angle is not added
draw_slot_NoRotation(self, k, i) ==
    LET pixel == self.pixels[k]
        arc == RADIANS_IN_CIRCLE \div self.size
        real_theta == IF self.mirror /\ i % 2 = 1
                      THEN i * arc - pixel.theta
                      ELSE i * arc + pixel.theta
    IN  [pixel |-> k, slot |-> i, real_theta |-> real_theta,
         radius |-> pixel.radius,
         xy |-> to_rectangular(real_theta, pixel.radius, self.origin),
         color |-> IF pixel.value = 1 THEN SNOWFLAKE_COLOR
                                      ELSE BACKGROUND_COLOR]

\* a faulty draw call: odd slots are rotated like even ones, never mirrored
draw_slot_CloneOnly(self, k, i) ==
    LET pixel == self.pixels[k]
        arc == RADIANS_IN_CIRCLE \div self.size
        real_theta == i * arc + pixel.theta + self.current_angle
    IN  [pixel |-> k, slot |-> i, real_theta |-> real_theta,
         radius |-> pixel.radius,
         xy |-> to_rectangular(real_theta, pixel.radius, self.origin),
         color |-> IF pixel.value = 1 THEN SNOWFLAKE_COLOR
                                      ELSE BACKGROUND_COLOR]

\* the draw call of slot i for one entry of the dict (lines 444-471)
draw_slot(self, k, i) ==
    LET pixel == self.pixels[k]
        radius == pixel.radius
        arc == RADIANS_IN_CIRCLE \div self.size
        placed == IF self.mirror
                  THEN IF i % 2 = 0 THEN i * arc + pixel.theta
                                    ELSE i * arc - pixel.theta
                  ELSE i * arc + pixel.theta
        real_theta == placed + self.current_angle
    IN  [pixel |-> k, slot |-> i, real_theta |-> real_theta,
         radius |-> radius,
         xy |-> to_rectangular(real_theta, radius, self.origin),
         color |-> IF pixel.value = 1 THEN SNOWFLAKE_COLOR
                                      ELSE BACKGROUND_COLOR]

\* draw_pixels: the circles drawn, in order
draw_pixels(self) ==
    [n \in 1..(Len(self.pixels) * self.size) |->
        draw_slot(self, ((n - 1) \div self.size) + 1, (n - 1) % self.size)]

\* draw_segment: the circles drawn into the input slice (lines 406-431)
draw_segment(self, segment) ==
    [k \in 1..Len(self.pixels) |->
        LET pixel == self.pixels[k]
            real_radius == (pixel.radius * segment.radius) \div self.radius
        IN  [xy |-> to_rectangular(pixel.theta, real_radius, segment.origin),
             color |-> IF pixel.value = 1 THEN SNOWFLAKE_COLOR
                                          ELSE BACKGROUND_COLOR]]

(***************************************************************************)
(* main() (lines 474-704): the state.                                      *)
(***************************************************************************)
VARIABLES
    segment,          \* the SnowflakeSegment
    snowflake,        \* the Snowflake
    running,          \* line 487
    rotate,           \* line 491
    update_cursor,    \* lines 494-497: the dirty flags
    update_flake,
    update_segment,
    update_UI,
    event,            \* the loop variable of line 529
    MB1,              \* line 569
    mouse,            \* the pointer position read at line 573
    cursor_position,  \* line 591
    surface,          \* what is painted on the surface, by region
    display,          \* what the display shows, by region
    pc,               \* the position in the loop body
    frame,            \* the number of the frame
    n_events,         \* events drained so far in this frame
    n_keys,           \* KEYDOWN events among them
    redrawn,          \* the regions redrawn so far in this frame
    flushed,          \* the display updates made so far in this frame
    dirtied,          \* the dirty flags seen set so far in this frame
    calls             \* the method calls made (when methods are called directly)

flags == <<update_cursor, update_flake, update_segment, update_UI>>
objects == <<segment, snowflake>>
screen == <<surface, display>>
perframe == <<n_events, n_keys, redrawn, flushed, dirtied>>
vars == <<segment, snowflake, running, rotate, flags, event, MB1, mouse,
          cursor_position, screen, pc, frame, perframe, calls>>

\* the dirty flags that are set
Dirty ==
    {f \in {"cursor", "flake", "segment", "UI"} :
        \/ f = "cursor" /\ update_cursor
        \/ f = "flake" /\ update_flake
        \/ f = "segment" /\ update_segment
        \/ f = "UI" /\ update_UI}

\* the events of pygame.event.get()
KeyEvents == {"K_r", "K_m", "K_TAB", "K_BACKSPACE", "K_DELETE", "K_other"}
Events == KeyEvents \cup {"QUIT", "MOUSEMOTION"}

\* the pointer positions tried, each as <<math.hypot, math.atan2>> of the
\* position relative to segment.origin: the apex, the rim at pi/6 and at
\* -pi/2, and a point beyond the rim
MousePositions == {<<0, 0>>, <<200, 20>>, <<200, -60>>, <<204, 0>>}

\* what segment.draw_outline and snowflake.draw_segment paint
SegmentPicture(seg, flake) ==
    [size |-> seg.size, pixels |-> draw_segment(flake, seg)]

\* what snowflake.draw_outline and snowflake.draw_pixels paint
FlakePicture(flake) == [pixels |-> draw_pixels(flake)]

\* lines 478-523
Init ==
    /\ running = TRUE
    /\ rotate = TRUE
    /\ update_cursor = FALSE
    /\ update_flake = FALSE
    /\ update_segment = FALSE
    /\ update_UI = TRUE
    /\ segment = SnowflakeSegment(SNOWFLAKE_SEGMENT_RADIUS, DEFAULT_SIZE,
                                  SNOWFLAKE_SEGMENT_POSITION, 0)
    /\ snowflake = NewSnowflake(SNOWFLAKE_RADIUS, DEFAULT_SIZE,
                                SNOWFLAKE_POSITION, DEFAULT_MIRROR)
    /\ event = "none"
    /\ MB1 = FALSE
    /\ mouse = "none"
    /\ cursor_position = "none"
    /\ surface = [flake |-> [pixels |-> <<>>],
                  segment |-> [size |-> DEFAULT_SIZE, pixels |-> <<>>],
                  cursor |-> "none",
                  UI |-> "none"]
    /\ display = surface
    /\ pc = "events"
    /\ frame = 1
    /\ n_events = 0
    /\ n_keys = 0
    /\ redrawn = {}
    /\ flushed = {}
    /\ dirtied = {"UI"}
    /\ calls = <<>>

(***************************************************************************)
(* The event handler (lines 529-565), one event per step.                  *)
(***************************************************************************)
\* a faulty successor: the index stops at the last size instead of wrapping
next_size_Clamped(size) ==
    LET current_size == index(VALID_SIZES, size) + 1
    IN  VALID_SIZES[(IF current_size >= Len(VALID_SIZES)
                     THEN Len(VALID_SIZES) - 1 ELSE current_size) + 1]

\* lines 548-550
next_size(size) ==
    VALID_SIZES[((index(VALID_SIZES, size) + 1) % Len(VALID_SIZES)) + 1]

\* a faulty M handler: the flake is built anew in the other mode
KeyM_Rebuilding(flake) ==
    [NewSnowflake(flake.radius, flake.size, flake.origin, ~flake.mirror)
        EXCEPT !.current_angle = flake.current_angle]

\* line 543
KeyM(flake) == [flake EXCEPT !.mirror = ~@]

\* lines 548-553: the two objects with their new size
KeyTabSizes(seg, flake) ==
    [segment |-> [seg EXCEPT !.size = next_size(flake.size)],
     snowflake |-> [flake EXCEPT !.size = next_size(flake.size)]]

\* a faulty Tab handler: no pixel is deleted
KeyTab_NoPurge(seg, flake) == KeyTabSizes(seg, flake)

\* lines 548-555
KeyTab(seg, flake) ==
    LET sized == KeyTabSizes(seg, flake)
    IN  [segment |-> sized.segment,
         snowflake |-> clear_pixels_outside(sized.snowflake, sized.segment)]

EventHandler ==
    /\ pc = "events"
    /\ n_events < MaxEvents
    /\ \E e \in Events :
        /\ event' = e
        /\ n_events' = n_events + 1
        /\ n_keys' = IF e \in KeyEvents THEN n_keys + 1 ELSE n_keys
        /\ running' = IF e = "QUIT" THEN FALSE ELSE running
        /\ rotate' = IF e = "K_r" THEN ~rotate ELSE rotate
        /\ snowflake' =
             IF e = "K_m" THEN KeyM(snowflake)
             ELSE IF e = "K_TAB" THEN KeyTab(segment, snowflake).snowflake
             ELSE IF e \in {"K_BACKSPACE", "K_DELETE"}
                  THEN clear_pixels(snowflake)
             ELSE snowflake
        /\ segment' = IF e = "K_TAB" THEN KeyTab(segment, snowflake).segment
                                     ELSE segment
        /\ update_flake' =
             IF e \in {"K_m", "K_TAB", "K_BACKSPACE", "K_DELETE"}
             THEN TRUE ELSE update_flake
        /\ update_segment' =
             IF e \in {"K_TAB", "K_BACKSPACE", "K_DELETE"}
             THEN TRUE ELSE update_segment
        /\ update_UI' = IF e = "K_TAB" THEN TRUE ELSE update_UI
    /\ UNCHANGED <<update_cursor, MB1, mouse, cursor_position, screen, pc,
                   frame, redrawn, flushed, calls>>
    /\ dirtied' = dirtied \cup Dirty'

\* the event queue is drained; the loop variable is not read again
EndEvents ==
    /\ pc = "events"
    /\ pc' = "cursor"
    /\ event' = "none"
    /\ UNCHANGED <<objects, running, rotate, flags, MB1, mouse,
                   cursor_position, screen, frame, perframe, calls>>

(***************************************************************************)
(* The cursor logic (lines 567-592).                                       *)
(***************************************************************************)
\* lines 585-588
record_pixel(flake, seg, polar_position) ==
    set_pixel(flake,
              PolarPoint((polar_position.radius * flake.radius) \div seg.radius,
                         polar_position.theta),
              1)

CursorLogic ==
    /\ pc = "cursor"
    /\ \E pressed \in BOOLEAN, position \in MousePositions :
        LET hypot == position[1]
            atan2 == position[2]
            polar_position == from_rectangular(hypot, atan2)
            inside == pressed /\ contains_point(segment, polar_position)
        IN  /\ MB1' = pressed
            /\ mouse' = IF pressed THEN <<hypot, atan2>> ELSE mouse
            /\ inside => Len(snowflake.pixels) < MaxPixels
            /\ snowflake' = IF inside
                            THEN record_pixel(snowflake, segment, polar_position)
                            ELSE snowflake
            /\ update_flake' = IF inside THEN TRUE ELSE update_flake
            /\ cursor_position' = IF inside THEN <<hypot, atan2>>
                                            ELSE cursor_position
            /\ update_cursor' = IF inside THEN TRUE ELSE update_cursor
    /\ pc' = "ui"
    /\ UNCHANGED <<segment, running, rotate, update_segment, update_UI, event,
                   screen, frame, n_events, n_keys, redrawn, flushed, calls>>
    /\ dirtied' = dirtied \cup Dirty'

(***************************************************************************)
(* The UI texts (lines 594-630).                                           *)
(***************************************************************************)
UI ==
    /\ pc = "ui"
    /\ pc' = "output"
    /\ surface' = IF update_UI
                  THEN [surface EXCEPT !.UI = [slices |-> snowflake.size]]
                  ELSE surface
    /\ redrawn' = IF update_UI THEN redrawn \cup {"UI"} ELSE redrawn
    /\ UNCHANGED <<objects, running, rotate, flags, event, MB1, mouse,
                   cursor_position, display, frame, n_events, n_keys, flushed,
                   dirtied, calls>>

(***************************************************************************)
(* The rotation tick (lines 632-637).                                      *)
(***************************************************************************)
\* a faulty rotation tick: the flake is not scheduled for a redraw
OutputLogic_NoSchedule ==
    /\ pc = "output"
    /\ pc' = "draw"
    /\ snowflake' = IF rotate THEN Snowflake_rotate(snowflake, ROTATION_SPEED)
                              ELSE snowflake
    /\ UNCHANGED <<segment, running, rotate, flags, event, MB1, mouse,
                   cursor_position, screen, frame, n_events, n_keys, redrawn,
                   flushed, dirtied, calls>>

OutputLogic ==
    /\ pc = "output"
    /\ pc' = "draw"
    /\ snowflake' = IF rotate THEN Snowflake_rotate(snowflake, ROTATION_SPEED)
                              ELSE snowflake
    /\ update_flake' = IF rotate THEN TRUE ELSE update_flake
    /\ UNCHANGED <<segment, running, rotate, update_cursor, update_segment,
                   update_UI, event, MB1, mouse, cursor_position, screen,
                   frame, n_events, n_keys, redrawn, flushed, calls>>
    /\ dirtied' = dirtied \cup Dirty'

(***************************************************************************)
(* The drawing (lines 639-672).                                            *)
(***************************************************************************)
Draw ==
    /\ pc = "draw"
    /\ pc' = "cleanup"
    /\ surface' =
         [surface EXCEPT
            !.flake = IF update_flake THEN FlakePicture(snowflake) ELSE @,
            !.segment = IF update_segment
                        THEN SegmentPicture(segment, snowflake) ELSE @,
            !.cursor = IF update_cursor THEN cursor_position ELSE @]
    /\ redrawn' = redrawn \cup (Dirty \ {"UI"})
    /\ UNCHANGED <<objects, running, rotate, flags, event, MB1, mouse,
                   cursor_position, display, frame, n_events, n_keys, flushed,
                   dirtied, calls>>

(***************************************************************************)
(* The display updates (lines 674-696).                                    *)
(***************************************************************************)
\* a faulty cleanup: update_cursor is not reset
Cleanup_KeepsCursorFlag ==
    /\ pc = "cleanup"
    /\ pc' = "tick"
    /\ update_flake' = FALSE
    /\ update_segment' = FALSE
    /\ update_UI' = FALSE
    /\ display' =
         IF update_UI THEN surface
         ELSE [display EXCEPT
                 !.flake = IF update_flake THEN surface.flake ELSE @,
                 !.segment = IF update_segment THEN surface.segment ELSE @,
                 !.cursor = IF update_cursor THEN surface.cursor ELSE @]
    /\ flushed' = flushed \cup Dirty
    /\ UNCHANGED <<objects, running, rotate, update_cursor, event, MB1,
                   mouse, cursor_position, surface, frame, n_events, n_keys,
                   redrawn, dirtied, calls>>

Cleanup ==
    /\ pc = "cleanup"
    /\ pc' = "tick"
    /\ update_flake' = FALSE
    /\ update_segment' = FALSE
    /\ update_cursor' = FALSE
    /\ update_UI' = FALSE
    /\ display' =
         IF update_UI THEN surface
         ELSE [display EXCEPT
                 !.flake = IF update_flake THEN surface.flake ELSE @,
                 !.segment = IF update_segment THEN surface.segment ELSE @,
                 !.cursor = IF update_cursor THEN surface.cursor ELSE @]
    /\ flushed' = flushed \cup Dirty
    /\ UNCHANGED <<objects, running, rotate, event, MB1, mouse,
                   cursor_position, surface, frame, n_events, n_keys, redrawn,
                   dirtied, calls>>

(***************************************************************************)
(* clock.tick and the loop test (lines 526, 699).  The locals of the frame *)
(* that ended are read no more before they are set again: they are reset.  *)
(***************************************************************************)
Tick ==
    /\ pc = "tick"
    /\ running
    /\ frame < MaxFrames
    /\ pc' = "events"
    /\ frame' = frame + 1
    /\ n_events' = 0
    /\ n_keys' = 0
    /\ redrawn' = {}
    /\ flushed' = {}
    /\ dirtied' = Dirty
    /\ MB1' = FALSE
    /\ mouse' = "none"
    /\ cursor_position' = "none"
    /\ UNCHANGED <<objects, running, rotate, flags, event, screen, calls>>

\* lines 701-704
Quit ==
    /\ pc = "tick"
    /\ ~running
    /\ pc' = "done"
    /\ UNCHANGED <<objects, running, rotate, flags, event, MB1, mouse,
                   cursor_position, screen, frame, perframe, calls>>

Next ==
    \/ EventHandler
    \/ EndEvents
    \/ CursorLogic
    \/ UI
    \/ OutputLogic
    \/ Draw
    \/ Cleanup
    \/ Tick
    \/ Quit

Spec == Init /\ [][Next]_vars

(***************************************************************************)
(* The methods called directly, on objects built with any arguments.       *)
(* The frame loop does not run (pc = "call"); calls records the calls.     *)
(***************************************************************************)
Sizes == {VALID_SIZES[k] : k \in 1..Len(VALID_SIZES)}

loop == <<running, rotate, flags, event, MB1, mouse, cursor_position, pc,
          frame, perframe>>

Harness(seg, flake) ==
    /\ segment = seg
    /\ snowflake = flake
    /\ running = TRUE
    /\ rotate = TRUE
    /\ update_cursor = FALSE
    /\ update_flake = FALSE
    /\ update_segment = FALSE
    /\ update_UI = TRUE
    /\ event = "none"
    /\ MB1 = FALSE
    /\ mouse = "none"
    /\ cursor_position = "none"
    /\ surface = [flake |-> [pixels |-> <<>>],
                  segment |-> [size |-> seg.size, pixels |-> <<>>],
                  cursor |-> "none",
                  UI |-> "none"]
    /\ display = surface
    /\ pc = "call"
    /\ frame = 1
    /\ n_events = 0
    /\ n_keys = 0
    /\ redrawn = {}
    /\ flushed = {}
    /\ dirtied = {"UI"}
    /\ calls = <<>>

\* the sequences over S of length 0..n
SeqsUpTo(S, n) == UNION {[1..m -> S] : m \in 0..n}

\* ---- SnowflakeSegment.contains_point -----------------------------------
CenteredAngles == {0, 60, 235}
ProbeRadii == {-1, 0, 100, 200, 201}

InitContains ==
    \E size \in Sizes, centered_angle \in CenteredAngles :
        Harness(SnowflakeSegment(SNOWFLAKE_SEGMENT_RADIUS, size,
                                 SNOWFLAKE_SEGMENT_POSITION, centered_angle),
                NewSnowflake(SNOWFLAKE_RADIUS, size, SNOWFLAKE_POSITION,
                             DEFAULT_MIRROR))

CallContains ==
    /\ pc = "call"
    /\ calls = <<>>
    /\ \E theta \in 0..(RADIANS_IN_CIRCLE - 1), radius \in ProbeRadii :
        calls' = <<[op |-> "contains_point",
                    point |-> PolarPoint(radius, theta),
                    ret |-> contains_point(segment, PolarPoint(radius, theta))]>>
    /\ UNCHANGED <<objects, loop, screen>>

SpecContains == InitContains /\ [][CallContains]_vars

\* ---- Snowflake.rotate ---------------------------------------------------
Deltas == {ROTATION_SPEED, 1, -7, 100, -239, 240, 250, -500}

InitRotate ==
    Harness(SnowflakeSegment(SNOWFLAKE_SEGMENT_RADIUS, DEFAULT_SIZE,
                             SNOWFLAKE_SEGMENT_POSITION, 0),
            NewSnowflake(SNOWFLAKE_RADIUS, DEFAULT_SIZE, SNOWFLAKE_POSITION,
                         DEFAULT_MIRROR))

CallRotate ==
    /\ pc = "call"
    /\ Len(calls) < MaxCalls
    /\ \E angle \in Deltas :
        /\ snowflake' = Snowflake_rotate(snowflake, angle)
        /\ calls' = Append(calls, [op |-> "rotate", angle |-> angle,
                                   before |-> snowflake.current_angle])
    /\ UNCHANGED <<segment, loop, screen>>

SpecRotate == InitRotate /\ [][CallRotate]_vars

\* ---- Snowflake.clear_pixels_outside --------------------------------------
\* the keys of the pixel maps tried, in the snowflake's radius scale
StoredThetas == {0, 11, 25, 100, 230}
StoredRadii == {0, 150, 153}
Stored == {Entry(PolarPoint(r, t), 1) : r \in StoredRadii, t \in StoredThetas}

InitClear ==
    \E size \in Sizes, pixels \in SeqsUpTo(Stored, MaxPixels) :
        Harness(SnowflakeSegment(SNOWFLAKE_SEGMENT_RADIUS, size,
                                 SNOWFLAKE_SEGMENT_POSITION, 0),
                [NewSnowflake(SNOWFLAKE_RADIUS, size, SNOWFLAKE_POSITION,
                              DEFAULT_MIRROR) EXCEPT !.pixels = pixels])

CallClearOutside ==
    /\ pc = "call"
    /\ Len(calls) < MaxCalls
    /\ snowflake' = clear_pixels_outside(snowflake, segment)
    /\ calls' = Append(calls, [op |-> "clear_pixels_outside",
                               before |-> snowflake.pixels,
                               after |-> snowflake'.pixels])
    /\ UNCHANGED <<segment, loop, screen>>

SpecClear == InitClear /\ [][CallClearOutside]_vars

\* ---- Snowflake.draw_pixels -----------------------------------------------
StartAngles == {0, 1, 37, 120, 239}
Drawn == {Entry(PolarPoint(r, t), 1) : r \in {0, 150}, t \in {0, 7, 230}}

InitDraw ==
    \E size \in Sizes, mirror \in BOOLEAN, angle \in StartAngles,
       pixels \in SeqsUpTo(Drawn, MaxPixels) :
        Harness(SnowflakeSegment(SNOWFLAKE_SEGMENT_RADIUS, size,
                                 SNOWFLAKE_SEGMENT_POSITION, 0),
                [NewSnowflake(SNOWFLAKE_RADIUS, size, SNOWFLAKE_POSITION,
                              mirror)
                    EXCEPT !.pixels = pixels, !.current_angle = angle])

CallDrawPixels ==
    /\ pc = "call"
    /\ calls = <<>>
    /\ surface' = [surface EXCEPT !.flake = FlakePicture(snowflake)]
    /\ calls' = <<[op |-> "draw_pixels"]>>
    /\ UNCHANGED <<objects, loop, display>>

SpecDraw == InitDraw /\ [][CallDrawPixels]_vars

(***************************************************************************)
(* The properties.                                                         *)
(***************************************************************************)
\* theta lies on the arc [centre - half, centre + half], taken modulo 2*pi
InArc(theta, centre, half) ==
    ((theta - centre + half) % RADIANS_IN_CIRCLE) <= 2 * half

\* pi / size
HalfArc(size) == RADIANS_IN_CIRCLE \div (2 * size)

\* 2 * pi / size
Arc(size) == RADIANS_IN_CIRCLE \div size

\* the step of the event handler that handles event e
HandlerStep(e) ==
    pc = "events" /\ n_events' = n_events + 1 /\ event' = e

\* the stored pixel, in the segment's radius scale
Rescaled(flake, seg, pixel) ==
    PolarPoint((pixel.radius * seg.radius) \div flake.radius, pixel.theta)

\* every stored pixel lies inside the segment
AllInside(flake, seg) ==
    \A k \in 1..Len(flake.pixels) :
        contains_point(seg, Rescaled(flake, seg, flake.pixels[k]))

\* how many entries of seq are e
Count(seq, e) == Cardinality({k \in 1..Len(seq) : seq[k] = e})

\* C1: contains_point returns true iff the radius is in [0, segment.radius]
\* and theta is on the arc centered_angle -+ pi/size (modulo 2*pi), for
\* every size, theta, radius and centered_angle.
C1_ContainsIffOnArc ==
    \A n \in 1..Len(calls) :
        calls[n].op = "contains_point" =>
            (calls[n].ret <=>
                /\ calls[n].point.radius >= 0
                /\ calls[n].point.radius <= segment.radius
                /\ InArc(calls[n].point.theta, segment.centered_angle,
                         HalfArc(segment.size)))

\* C2: the pixel map never holds two entries with the same (theta, radius).
C2_OneEntryPerKey ==
    \A j, k \in 1..Len(snowflake.pixels) :
        (/\ snowflake.pixels[j].theta = snowflake.pixels[k].theta
         /\ snowflake.pixels[j].radius = snowflake.pixels[k].radius) => j = k

\* C3: at the end of every frame every stored pixel lies inside the current
\* segment; a pointer sample outside the segment leaves the pixel map
\* unchanged; a Tab press leaves no stored pixel outside the segment of the
\* new size.
C3_StoredPixelsInsideSegment ==
    /\ [](pc \in {"tick", "done"} => AllInside(snowflake, segment))
    /\ [][(/\ pc = "cursor"
           /\ pc' = "ui"
           /\ MB1'
           /\ ~contains_point(segment, from_rectangular(mouse'[1], mouse'[2])))
          => snowflake'.pixels = snowflake.pixels]_vars
    /\ [][HandlerStep("K_TAB") => AllInside(snowflake', segment')]_vars

\* a Tab press, the first event of the second frame, has purged the map
C3_Witness ==
    /\ pc = "events"
    /\ frame = 2
    /\ n_events = 1
    /\ event = "K_TAB"
    /\ surface.flake.pixels # <<>>
    /\ snowflake.pixels = <<>>

\* the draw call of slot i of the k-th stored pixel, as painted
Placed(k, i) == surface.flake.pixels[(k - 1) * snowflake.size + i + 1]

\* draw_pixels has run, in clone mode
CloneDrawn == pc = "call" /\ calls # <<>> /\ ~snowflake.mirror

\* C4 as stated: in clone mode draw_pixels places N copies of every stored
\* pixel at the angles i*(2*pi/N) + theta + rotation_angle, the N placements
\* pairwise distinct and consecutive ones 2*pi/N apart, also at radius 0.
C4_ClonesPairwiseDistinct ==
    CloneDrawn =>
        /\ Len(surface.flake.pixels) = Len(snowflake.pixels) * snowflake.size
        /\ \A k \in 1..Len(snowflake.pixels) :
            /\ \A i \in 0..(snowflake.size - 1) :
                Placed(k, i).real_theta =
                    i * Arc(snowflake.size) + snowflake.pixels[k].theta
                        + snowflake.current_angle
            /\ \A i \in 1..(snowflake.size - 1) :
                Placed(k, i).real_theta - Placed(k, i - 1).real_theta
                    = Arc(snowflake.size)
            /\ \A i, j \in 0..(snowflake.size - 1) :
                i # j => Placed(k, i).xy # Placed(k, j).xy

\* C4, amended: in clone mode draw_pixels makes N draw calls for every
\* stored pixel, at the angles i*(2*pi/N) + theta + rotation_angle; these N
\* angles are pairwise distinct modulo 2*pi and consecutive ones are 2*pi/N
\* apart; a pixel stored at radius 0 is drawn N times at the one position
\* snowflake.origin.
C4_CloneAngles ==
    CloneDrawn =>
        /\ Len(surface.flake.pixels) = Len(snowflake.pixels) * snowflake.size
        /\ \A k \in 1..Len(snowflake.pixels) :
            /\ \A i \in 0..(snowflake.size - 1) :
                Placed(k, i).real_theta =
                    i * Arc(snowflake.size) + snowflake.pixels[k].theta
                        + snowflake.current_angle
            /\ \A i \in 1..(snowflake.size - 1) :
                Placed(k, i).real_theta - Placed(k, i - 1).real_theta
                    = Arc(snowflake.size)
            /\ \A i, j \in 0..(snowflake.size - 1) :
                i # j => Placed(k, i).real_theta % RADIANS_IN_CIRCLE
                            # Placed(k, j).real_theta % RADIANS_IN_CIRCLE
            /\ snowflake.pixels[k].radius = 0 =>
                \A i \in 0..(snowflake.size - 1) :
                    Placed(k, i).xy = <<snowflake.origin[1],
                                        SCREEN_HEIGHT - snowflake.origin[2]>>

\* twelve clones of a pixel at the apex and of a pixel on the rim, rotated
C4_Witness ==
    /\ CloneDrawn
    /\ snowflake.size = 12
    /\ snowflake.current_angle = 239
    /\ Len(snowflake.pixels) = 2
    /\ snowflake.pixels[1].radius = 0
    /\ snowflake.pixels[2].radius = SNOWFLAKE_RADIUS
    /\ snowflake.pixels[2].theta # 0
    /\ Placed(1, 0).xy = Placed(1, 11).xy
    /\ Placed(2, 0).xy # Placed(2, 11).xy

\* draw_pixels has run, in mirror mode
MirrorDrawn == pc = "call" /\ calls # <<>> /\ snowflake.mirror

\* C5 as stated: in mirror mode the placement angles of an odd slot i and
\* of slot i-1 add up to 2*i*(2*pi/N) + 2*rotation_angle modulo 2*pi.
C5_MirrorAboutSlotAngle ==
    MirrorDrawn =>
        \A k \in 1..Len(snowflake.pixels) :
            \A i \in 0..(snowflake.size - 1) :
                i % 2 = 1 =>
                    (Placed(k, i).real_theta + Placed(k, i - 1).real_theta)
                            % RADIANS_IN_CIRCLE
                    = (2 * i * Arc(snowflake.size)
                            + 2 * snowflake.current_angle) % RADIANS_IN_CIRCLE

\* C5, amended: in mirror mode the placements of an odd slot i and of slot
\* i-1 are mirror images about the boundary between the two slots, the
\* angle (i - 1/2)*(2*pi/N) plus the rotation offset: their angles add up
\* to (2*i - 1)*(2*pi/N) + 2*rotation_angle modulo 2*pi.
C5_MirrorAboutSlotBoundary ==
    MirrorDrawn =>
        \A k \in 1..Len(snowflake.pixels) :
            \A i \in 0..(snowflake.size - 1) :
                i % 2 = 1 =>
                    (Placed(k, i).real_theta + Placed(k, i - 1).real_theta)
                            % RADIANS_IN_CIRCLE
                    = ((2 * i - 1) * Arc(snowflake.size)
                            + 2 * snowflake.current_angle) % RADIANS_IN_CIRCLE

\* a rotated mirrored flake of a pixel off the axis has been drawn
C5_Witness ==
    /\ MirrorDrawn
    /\ snowflake.size = 6
    /\ snowflake.current_angle = 37
    /\ Len(snowflake.pixels) = 1
    /\ snowflake.pixels[1].theta = 7
    /\ snowflake.pixels[1].radius = SNOWFLAKE_RADIUS
    /\ Len(surface.flake.pixels) = 6

RECURSIVE SumOfAngles(_, _)
\* the sum of the angles of the first n calls
SumOfAngles(cs, n) == IF n = 0 THEN 0 ELSE cs[n].angle + SumOfAngles(cs, n - 1)

Successor(size) == IF size = 12 THEN 2 ELSE size + 2

\* C7: a Tab press sets both sizes to the cyclic successor of the size, no
\* other step changes a size, the two sizes are always equal and in
\* {2,4,6,8,10,12}, and six successors lead back to the size.
C7_SizeCycles ==
    /\ [](/\ snowflake.size = segment.size
          /\ snowflake.size \in {2, 4, 6, 8, 10, 12}
          /\ Successor(Successor(Successor(Successor(Successor(Successor(
                snowflake.size)))))) = snowflake.size)
    /\ [][HandlerStep("K_TAB") =>
            /\ snowflake'.size = Successor(snowflake.size)
            /\ segment'.size = Successor(segment.size)]_vars
    /\ [][~HandlerStep("K_TAB") =>
            /\ snowflake'.size = snowflake.size
            /\ segment'.size = segment.size]_vars

\* a Tab press has wrapped the size from 12 to 2
C7_Witness ==
    /\ pc = "events"
    /\ event = "K_TAB"
    /\ frame = 2
    /\ n_events = 2
    /\ snowflake.size = 2
    /\ segment.size = 2

\* C8: the M key flips the mirror flag and schedules the flake for redraw;
\* the pixel map, the sizes, the rotation angle and everything else of the
\* two objects stay as they were (so a second M restores the flag).
C8_MirrorToggleKeepsPixels ==
    [][HandlerStep("K_m") =>
        /\ snowflake'.mirror = ~snowflake.mirror
        /\ snowflake'.pixels = snowflake.pixels
        /\ snowflake'.size = snowflake.size
        /\ snowflake'.current_angle = snowflake.current_angle
        /\ snowflake' = [snowflake EXCEPT !.mirror = ~snowflake.mirror]
        /\ segment' = segment
        /\ update_flake'
        /\ rotate' = rotate
        /\ running' = running
        /\ UNCHANGED <<update_cursor, update_segment, update_UI>>]_vars

\* M has been pressed twice in a frame, with a pixel stored and the flake
\* rotated: the flag is back at its first value
C8_Witness ==
    /\ pc = "events"
    /\ event = "K_m"
    /\ frame = 2
    /\ n_events = 2
    /\ snowflake.mirror = DEFAULT_MIRROR
    /\ update_flake
    /\ ~update_segment
    /\ snowflake.pixels # <<>>
    /\ snowflake.current_angle # 0

\* C9: clear_pixels_outside keeps a subset of the pixels, keeps every pixel
\* that passes the containment test, and a second call in a row changes
\* nothing.
C9_ClearOutsideIdempotent ==
    \A n \in 1..Len(calls) :
        calls[n].op = "clear_pixels_outside" =>
            /\ \A e \in Stored :
                Count(calls[n].after, e) <= Count(calls[n].before, e)
            /\ Len(calls[n].after) <= Len(calls[n].before)
            /\ \A e \in Stored :
                contains_point(segment, Rescaled(snowflake, segment, e))
                    => Count(calls[n].after, e) = Count(calls[n].before, e)
            /\ n >= 2 => calls[n].after = calls[n - 1].after

\* the first of two calls removed two pixels and kept one
C9_Witness ==
    /\ pc = "call"
    /\ Len(calls) = 2
    /\ calls[1].op = "clear_pixels_outside"
    /\ Len(calls[1].after) >= 1
    /\ Len(calls[1].before) > Len(calls[1].after)
    /\ snowflake.pixels = calls[1].after

\* C10: a region is redrawn, and a display update made for it, only if its
\* dirty flag was set in the frame; every dirty flag is false when the frame
\* ends; a frame with no key event, the button up and rotation off redraws
\* and updates nothing.
C10_NeedBasedRedraw ==
    /\ redrawn \subseteq dirtied
    /\ flushed \subseteq dirtied
    /\ pc \in {"tick", "done"} => Dirty = {}
    /\ (pc = "tick" /\ n_keys = 0 /\ ~MB1 /\ ~rotate)
            => (redrawn = {} /\ flushed = {})

\* an idle frame has ended, with pixels stored
C10_Witness ==
    /\ pc = "tick"
    /\ frame = 2
    /\ n_keys = 0
    /\ n_events = 1
    /\ ~MB1
    /\ ~rotate
    /\ snowflake.pixels # <<>>
    /\ redrawn = {}
    /\ flushed = {}

\* C11 as stated: for a segment centered at angle 0 there are a size in
\* {2,4,6,8,10,12}, a theta in [0, 2*pi) outside the arc -+ pi/size and a
\* radius in [0, segment.radius] for which contains_point returns true.
C11_AdmitsAngleOutsideArc ==
    \E size \in Sizes, theta \in 0..(RADIANS_IN_CIRCLE - 1),
       radius \in 0..segment.radius :
        /\ ~InArc(theta, 0, HalfArc(size))
        /\ contains_point(SnowflakeSegment(segment.radius, size,
                                           segment.origin, 0),
                          PolarPoint(radius, theta))

\* C11, amended: for a segment centered at angle 0 the angular test of
\* contains_point admits no angle outside the intended arc, for any size in
\* {2,4,6,8,10,12}: it returns true only for a theta within -+ pi/size
\* modulo 2*pi (and a radius in [0, segment.radius]), and for every such
\* point.
C11_CentredAtZeroAdmitsOnlyArc ==
    segment.centered_angle = 0 =>
        \A n \in 1..Len(calls) :
            calls[n].op = "contains_point" =>
                (calls[n].ret <=>
                    /\ calls[n].point.radius >= 0
                    /\ calls[n].point.radius <= segment.radius
                    /\ InArc(calls[n].point.theta, 0, HalfArc(segment.size)))

\* the widest segment, centered at 0, has rejected the rim point just past
\* the end of its arc
C11_Witness ==
    /\ pc = "call"
    /\ segment.centered_angle = 0
    /\ segment.size = 2
    /\ Len(calls) = 1
    /\ calls[1].op = "contains_point"
    /\ calls[1].point.theta = HalfArc(2) + 1
    /\ calls[1].point.radius = segment.radius
    /\ ~calls[1].ret

\* C12: every step that changes the snowflake's pixels, mirror flag, size
\* or rotation angle leaves the flake scheduled; when a frame in which the
\* flake was scheduled ends, the flake has been redrawn and its region
\* updated; and at the end of every frame the surface and the display show
\* draw_pixels of the snowflake as it then is.
C12_FlakeNeverStale ==
    /\ [][snowflake' # snowflake => update_flake']_vars
    /\ []((pc \in {"tick", "done"} /\ "flake" \in dirtied)
            => ("flake" \in redrawn /\ "flake" \in flushed))
    /\ [](pc \in {"tick", "done"}
            => /\ surface.flake.pixels = draw_pixels(snowflake)
               /\ display.flake = surface.flake)

\* a frame with Tab and M, a pixel drawn and a rotation tick has ended
C12_Witness ==
    /\ pc = "tick"
    /\ frame = 2
    /\ n_keys = 2
    /\ MB1
    /\ rotate
    /\ snowflake.size = 8
    /\ ~snowflake.mirror
    /\ Len(snowflake.pixels) = 2
    /\ snowflake.current_angle = RADIANS_IN_CIRCLE - 2
    /\ "flake" \in flushed
    /\ Len(display.flake.pixels) = 16

=============================================================================
